---- MODULE Spec2Model ----
(***************************************************************************)
(* Coastal monitoring backend (src/app.py): the background generator       *)
(* thread (_dummy_loop), the Flask request handlers, the shared globals    *)
(* dummy_mode_enabled, _prev and settings with their two locks, and the    *)
(* sensor_data table.                                                      *)
(*                                                                         *)
(* Sensor values are fixed-point numbers in thousandths (130.0 is 130000), *)
(* so that round(x, 2) is a real rounding.  Every thread advances one      *)
(* access to shared state at a time; a pc label carries the source line    *)
(* of the statement that runs next.  The store is available, an sqlite3    *)
(* call that is made returns, except in the specification SpecFault, where *)
(* an INSERT may raise.  The timestamp column is a reading                 *)
(* of the wall clock that no control flow depends on; rows carry, in its   *)
(* place, the task that wrote them (field by).                             *)
(***************************************************************************)
EXTENDS Integers, Sequences, FiniteSets, TLC

VARIABLES
    dummy_mode_enabled,   \* app.py:27
    dummy_mode_lock,      \* app.py:28, the holder or NoThread
    _prev,                \* app.py:31
    settings,             \* app.py:34
    settings_lock,        \* app.py:39, the holder or NoThread
    sensor_data,          \* the committed rows of table sensor_data
    sqlite_sequence,      \* AUTOINCREMENT: the largest id ever committed
    db_writer,            \* the thread whose connection has a write transaction open
    pc,                   \* per thread: the statement that runs next
    req,                  \* per handler: the request being served
    local,                \* per thread: the locals of the running function
    resp,                 \* per handler: the response of the last request
    iter,                 \* iterations of _dummy_loop started
    nreq,                 \* requests accepted
    budget,               \* iterations plus requests that are explored
    settings_hist,        \* history: Settings as it stood between whole updates
    toggle_flips,         \* history: assignments of line 230 executed
    last_toggle,          \* history: result of the toggle that returned last,
                          \*   "none" once a later toggle has written the flag
    off_period            \* history: since the last write of the flag, the rows the
                          \*   loop committed while it was disabled, and whether
                          \*   that write disabled it while the loop slept

vars == <<dummy_mode_enabled, dummy_mode_lock, _prev, settings, settings_lock,
          sensor_data, sqlite_sequence, db_writer, pc, req, local, resp,
          iter, nreq, budget, settings_hist, toggle_flips, last_toggle,
          off_period>>

(* Bounds of the exploration: the number of tasks (loop iterations plus
   requests) started in a run of each specification *)

GenTasks == 2
LoopTasks == 3
SettingsTasks == 3
MaxTasks == 2

Loop == "loop"
Handlers == {"h1", "h2"}
Threads == {Loop} \cup Handlers
NoThread == "none"

(* Program constants; sensor values in thousandths *)

SEA_LO == 50000
SEA_HI == 250000
WIND_LO == 1000
WIND_HI == 25000
DELTA_SEA == 8000
DELTA_WIND == 3000
SEA_WARNING == 120000
SEA_DANGER == 180000
WIND_WARNING == 10000
WIND_DANGER == 18000
INTERVAL_LO == 1
INTERVAL_HI == 60
POINTS_LO == 10
POINTS_HI == 500
DAYS_LO == 1
DAYS_HI == 30

\* The draws of lines 87-88 that are explored: random.uniform(-8, 8) and
\* random.uniform(-3, 3) at the lower end, and near the upper end at a value
\* that is no multiple of 0.01
Draws == {[delta_sea |-> -DELTA_SEA, delta_wind |-> -DELTA_WIND],
          [delta_sea |-> DELTA_SEA - 5, delta_wind |-> DELTA_WIND - 5]}

\* _prev at start-up, and a state the walk reaches from it next to an end
\* of each range (130 + 114 = 244, 10 - 7 = 3)
PrevStart == [sea_level |-> 130000, wind_speed |-> 10000]
PrevInit == {PrevStart, [sea_level |-> 244000, wind_speed |-> 3000]}

SettingsStart == [data_interval |-> 3, chart_points |-> 50, prediction_days |-> 7]

(* JSON values of a request body.  A string is kept as what float() and
   int() make of it: the number it spells, or no number at all. *)

Num(v) == [kind |-> "num", v |-> v]
NumStr(v) == [kind |-> "numstr", v |-> v]
BadStr == [kind |-> "badstr", v |-> 0]
None == [kind |-> "null", v |-> 0]

\* dict.get(key): None for a missing key
Get(data, key) == IF key \in DOMAIN data THEN data[key] ELSE None

\* float(x) and int(x) return for a number and for a string that spells
\* one, and raise (ValueError, TypeError) otherwise
Converts(x) == x.kind \in {"num", "numstr"}
Value(x) == x.v

(* Pure helpers *)

Min2(a, b) == IF a < b THEN a ELSE b
Max2(a, b) == IF a > b THEN a ELSE b
Abs(a) == IF a < 0 THEN -a ELSE a

_clampNoUpper(value, lo, hi) == Max2(lo, value)
_clamp(value, lo, hi) == Max2(lo, Min2(hi, value))

\* round(x, 2) on thousandths: to the nearest multiple of 10, ties to even
round2(x) ==
    LET q == x \div 10
        r == x % 10
    IN  IF r < 5 THEN 10 * q
        ELSE IF r > 5 THEN 10 * (q + 1)
        ELSE IF q % 2 = 0 THEN 10 * q ELSE 10 * (q + 1)

compute_statusStrict(sea_level, wind_speed) ==
    LET sea_status == IF sea_level < SEA_WARNING THEN "Normal"
                      ELSE IF sea_level < SEA_DANGER THEN "Warning"
                      ELSE "Danger"
        wind_status == IF wind_speed <= WIND_WARNING THEN "Normal"
                       ELSE IF wind_speed <= WIND_DANGER THEN "Warning"
                       ELSE "Danger"
    IN  <<sea_status, wind_status, IF wind_status = "Danger" \/ sea_status = "Danger"
                                   THEN "Danger"
                                   ELSE IF wind_status = "Warning" \/ sea_status = "Warning"
                                   THEN "Warning" ELSE "Normal">>
compute_statusSeaFirst(sea_level, wind_speed) ==
    LET sea_status == IF sea_level < SEA_WARNING THEN "Normal"
                      ELSE IF sea_level <= SEA_DANGER THEN "Warning"
                      ELSE "Danger"
        wind_status == IF wind_speed < WIND_WARNING THEN "Normal"
                       ELSE IF wind_speed <= WIND_DANGER THEN "Warning"
                       ELSE "Danger"
    IN  <<sea_status, wind_status, sea_status>>
\* compute_status, app.py:102-121
compute_status(sea_level, wind_speed) ==
    LET sea_status == IF sea_level < SEA_WARNING THEN "Normal"
                      ELSE IF sea_level <= SEA_DANGER THEN "Warning"
                      ELSE "Danger"
        wind_status == IF wind_speed < WIND_WARNING THEN "Normal"
                       ELSE IF wind_speed <= WIND_DANGER THEN "Warning"
                       ELSE "Danger"
        priority == [s \in {"Normal", "Warning", "Danger"} |->
                        IF s = "Normal" THEN 0 ELSE IF s = "Warning" THEN 1 ELSE 2]
        \* max(a, b, key=...) returns the first of equal maxima
        overall == IF priority[wind_status] > priority[sea_status]
                   THEN wind_status ELSE sea_status
    IN  <<sea_status, wind_status, overall>>

\* row_to_dict, app.py:137-144
row_to_dict(row) ==
    LET s == compute_status(row.sea_level, row.wind_speed)
    IN  [id |-> row.id, sea_level |-> row.sea_level, wind_speed |-> row.wind_speed,
         by |-> row.by, sea_status |-> s[1], wind_status |-> s[2],
         overall_status |-> s[3]]

(* Initial state *)

NoRow == [id |-> 0, sea_level |-> 0, wind_speed |-> 0, by |-> <<"none", 0>>]
NoLocal == [enabled |-> FALSE, delta_sea |-> 0, delta_wind |-> 0,
            new_sea |-> 0, new_wind |-> 0,
            vals |-> [sea_level |-> 0, wind_speed |-> 0],
            sea |-> 0, wind |-> 0, row |-> NoRow, tmp |-> FALSE,
            interval |-> 0, limit |-> 0, days |-> 0,
            old |-> SettingsStart, gens |-> 0]
NoReq == [kind |-> "none", no |-> 0, data |-> <<>>]
NoResp == [code |-> 0]

\* The state after construction, for a table that holds rows already (the
\* database file outlives the process: CREATE TABLE IF NOT EXISTS, line 65)
InitStore(tasks, rows) ==
    /\ dummy_mode_enabled = TRUE
    /\ dummy_mode_lock = NoThread
    /\ _prev \in PrevInit
    /\ settings = SettingsStart
    /\ settings_lock = NoThread
    /\ sensor_data = rows
    /\ sqlite_sequence = Len(rows)
    /\ db_writer = NoThread
    /\ pc = [t \in Threads |-> IF t = Loop THEN "L154" ELSE "idle"]
    /\ req = [t \in Handlers |-> NoReq]
    /\ local = [t \in Threads |-> NoLocal]
    /\ resp = [t \in Handlers |-> NoResp]
    /\ iter = 0
    /\ nreq = 0
    /\ budget = tasks
    /\ settings_hist = {SettingsStart}
    /\ toggle_flips = 0
    /\ last_toggle = "none"
    /\ off_period = [appends |-> 0, asleep |-> FALSE]

InitWith(tasks) == InitStore(tasks, <<>>)

Init == InitWith(MaxTasks)

(* Frames *)

\* The end of a with block, by its last statement, a return or an
\* exception: the lock is released by the thread that holds it
ReleasedNever(lock, t) == lock
Released(lock, t) == IF lock = t THEN NoThread ELSE lock

locks == <<dummy_mode_lock, settings_lock>>
store == <<sensor_data, sqlite_sequence, db_writer>>
history == <<settings_hist, toggle_flips, last_toggle, off_period>>
counters == <<iter, nreq, budget>>

Goto(t, label) == pc' = [pc EXCEPT ![t] = label]

(* generate_sensor_values, app.py:85-99, run by thread t.  The draws of
   lines 87-88 touch no shared state: they are taken in the caller's step
   that enters the function. *)

\* line 90: read _prev["sea_level"], clamp into a local
G90(t) ==
    /\ pc[t] = "G90"
    /\ local' = [local EXCEPT ![t] =
                    [@ EXCEPT !.new_sea = _clamp(_prev.sea_level + local[t].delta_sea,
                                                 SEA_LO, SEA_HI),
                              !.gens = @ + 1]]
    /\ Goto(t, "G91")
    /\ UNCHANGED <<dummy_mode_enabled, _prev, settings, locks, store, req, resp,
                   counters, history>>

\* line 91: read _prev["wind_speed"], clamp into a local
G91(t) ==
    /\ pc[t] = "G91"
    /\ local' = [local EXCEPT ![t] =
                    [@ EXCEPT !.new_wind = _clamp(_prev.wind_speed + local[t].delta_wind,
                                                  WIND_LO, WIND_HI)]]
    /\ Goto(t, "G93")
    /\ UNCHANGED <<dummy_mode_enabled, _prev, settings, locks, store, req, resp,
                   counters, history>>

\* line 93: _prev["sea_level"] = new_sea
G93(t) ==
    /\ pc[t] = "G93"
    /\ _prev' = [_prev EXCEPT !.sea_level = local[t].new_sea]
    /\ Goto(t, "G94")
    /\ UNCHANGED <<dummy_mode_enabled, settings, locks, store, req, local, resp,
                   counters, history>>

\* lines 94-99: _prev["wind_speed"] = new_wind; return the rounded pair.
\* Both callers (lines 158 and 218) pass the pair on to insert_record.
G94(t) ==
    /\ pc[t] = "G94"
    /\ _prev' = [_prev EXCEPT !.wind_speed = local[t].new_wind]
    /\ LET vals == [sea_level |-> round2(local[t].new_sea),
                    wind_speed |-> round2(local[t].new_wind)]
       IN  local' = [local EXCEPT ![t] =
                        [@ EXCEPT !.vals = vals, !.sea = vals.sea_level,
                                  !.wind = vals.wind_speed,
                                  !.delta_sea = 0, !.delta_wind = 0,
                                  !.new_sea = 0, !.new_wind = 0]]
    /\ Goto(t, "I128")
    /\ UNCHANGED <<dummy_mode_enabled, settings, locks, store, req, resp,
                   counters, history>>

(* insert_record, app.py:124-134, run by thread t on a connection of its own *)

\* The task a row is written by: an iteration of the loop, or a request
Origin(t) == IF t = Loop THEN <<"loop", iter>> ELSE <<req[t].kind, req[t].no>>

\* SQLite admits one write transaction at a time; a second writer waits
WriterFreeNoExclusion == TRUE
WriterFree == db_writer = NoThread

\* lines 127-131: the INSERT opens a write transaction and takes the next
\* AUTOINCREMENT id; the row is not visible to other connections yet
I128(t) ==
    /\ pc[t] = "I128"
    /\ WriterFree
    /\ db_writer' = t
    /\ local' = [local EXCEPT ![t] =
                    [@ EXCEPT !.row = [id |-> sqlite_sequence + 1,
                                       sea_level |-> local[t].sea,
                                       wind_speed |-> local[t].wind,
                                       by |-> Origin(t)]]]
    /\ Goto(t, "I132")
    /\ UNCHANGED <<dummy_mode_enabled, _prev, settings, locks, sensor_data,
                   sqlite_sequence, req, resp, counters, history>>

\* The response of the handler that called insert_record (lines 186, 219-222)
InsertResponse(t) ==
    IF req[t].kind = "sensor-data"
    THEN [code |-> 201, message |-> "ok"]
    ELSE LET s == compute_status(local[t].vals.sea_level, local[t].vals.wind_speed)
         IN  [code |-> 200, sea_level |-> local[t].vals.sea_level,
              wind_speed |-> local[t].vals.wind_speed,
              sea_status |-> s[1], wind_status |-> s[2], overall_status |-> s[3]]

\* lines 132-134: commit, and return to the caller: line 159 in the loop,
\* the response in a handler
I132(t) ==
    /\ pc[t] = "I132"
    /\ sensor_data' = Append(sensor_data, local[t].row)
    /\ sqlite_sequence' = local[t].row.id
    /\ db_writer' = NoThread
    /\ IF t = Loop
       THEN /\ local' = [local EXCEPT ![t] =
                            [@ EXCEPT !.row = NoRow, !.sea = 0, !.wind = 0]]
            /\ Goto(t, "L159")
            /\ resp' = resp
            /\ off_period' = IF dummy_mode_enabled THEN off_period
                             ELSE [off_period EXCEPT !.appends = @ + 1]
       ELSE /\ local' = [local EXCEPT ![t] = NoLocal]
            /\ Goto(t, "done")
            /\ resp' = [resp EXCEPT ![t] = InsertResponse(t)]
            /\ off_period' = off_period
    /\ UNCHANGED <<dummy_mode_enabled, _prev, settings, locks, req, counters,
                   settings_hist, toggle_flips, last_toggle>>

(* _dummy_loop, app.py:151-161 *)

\* line 154: with dummy_mode_lock (an iteration starts)
L154 ==
    /\ pc[Loop] = "L154"
    /\ iter + nreq < budget
    /\ dummy_mode_lock = NoThread
    /\ dummy_mode_lock' = Loop
    /\ iter' = iter + 1
    /\ local' = [local EXCEPT ![Loop] = NoLocal]
    /\ Goto(Loop, "L155")
    /\ UNCHANGED <<dummy_mode_enabled, _prev, settings, settings_lock, store,
                   req, resp, nreq, budget, history>>

\* line 155: the value the loop reads the flag as
ReadFlagStale == TRUE
ReadFlag == dummy_mode_enabled

\* line 156: if enabled
LoopBranchAlways(enabled) == "G90"
LoopBranch(enabled) == IF enabled THEN "G90" ELSE "L159"

\* lines 155-157: enabled = dummy_mode_enabled; release; branch on enabled
\* and, if enabled, enter generate_sensor_values (lines 87-88)
L155 ==
    /\ pc[Loop] = "L155"
    /\ \E d \in Draws :
          local' = [local EXCEPT ![Loop] =
                       IF ReadFlag
                       THEN [@ EXCEPT !.enabled = TRUE, !.delta_sea = d.delta_sea,
                                      !.delta_wind = d.delta_wind]
                       ELSE [@ EXCEPT !.enabled = FALSE]]
    /\ dummy_mode_lock' = NoThread
    /\ Goto(Loop, LoopBranch(ReadFlag))
    /\ UNCHANGED <<dummy_mode_enabled, _prev, settings, settings_lock, store,
                   req, resp, counters, history>>

\* line 159: with settings_lock
L159 ==
    /\ pc[Loop] = "L159"
    /\ settings_lock = NoThread
    /\ settings_lock' = Loop
    /\ Goto(Loop, "L160")
    /\ UNCHANGED <<dummy_mode_enabled, _prev, settings, dummy_mode_lock, store,
                   req, local, resp, counters, history>>

\* line 160: interval = settings["data_interval"]; release
L160 ==
    /\ pc[Loop] = "L160"
    /\ local' = [local EXCEPT ![Loop] = [@ EXCEPT !.interval = settings.data_interval]]
    /\ settings_lock' = NoThread
    /\ Goto(Loop, "L161")
    /\ UNCHANGED <<dummy_mode_enabled, _prev, settings, dummy_mode_lock, store,
                   req, resp, counters, history>>

\* line 161: time.sleep(interval) runs out
L161 ==
    /\ pc[Loop] = "L161"
    /\ Goto(Loop, "L154")
    /\ UNCHANGED <<dummy_mode_enabled, _prev, settings, locks, store,
                   req, local, resp, counters, history>>

(* Requests *)

\* Handler threads are interchangeable: a request goes to the first free one
Free(t) == pc[t] \in {"idle", "done"}
FirstFree(t) == Free(t) /\ (t = "h2" => ~Free("h1"))

\* Thread t accepts the next request, of the given kind, and runs the
\* handler up to its first access to shared state
Accept(t, kind, data, locals, label) ==
    /\ iter + nreq < budget
    /\ nreq' = nreq + 1
    /\ req' = [req EXCEPT ![t] = [kind |-> kind, no |-> nreq + 1, data |-> data]]
    /\ local' = [local EXCEPT ![t] = locals]
    /\ resp' = [resp EXCEPT ![t] = NoResp]
    /\ Goto(t, label)
    /\ UNCHANGED <<dummy_mode_enabled, _prev, settings, locks, store, iter,
                   budget, history>>

\* Thread t accepts the next request and answers it in the same step: the
\* handler makes at most one access to shared state
Reply(t, kind, data, response) ==
    /\ iter + nreq < budget
    /\ nreq' = nreq + 1
    /\ req' = [req EXCEPT ![t] = [kind |-> kind, no |-> nreq + 1, data |-> data]]
    /\ local' = [local EXCEPT ![t] = NoLocal]
    /\ resp' = [resp EXCEPT ![t] = response]
    /\ Goto(t, "done")
    /\ UNCHANGED <<dummy_mode_enabled, _prev, settings, locks, store, iter,
                   budget, history>>

(* api_generate_dummy, app.py:214-222 *)

\* line 217 enters generate_sensor_values (lines 87-88)
GenerateDummy(t) ==
    /\ FirstFree(t)
    /\ \E d \in Draws :
          Accept(t, "generate-dummy", <<>>,
                 [NoLocal EXCEPT !.delta_sea = d.delta_sea, !.delta_wind = d.delta_wind],
                 "G90")

(* api_toggle_dummy, app.py:225-232 *)

ToggleDummy(t) ==
    /\ FirstFree(t)
    /\ Accept(t, "toggle-dummy", <<>>, NoLocal, "T229")

DummyLockFreeNoExclusion == TRUE
DummyLockFree == dummy_mode_lock = NoThread

OnOff(b) == IF b THEN "on" ELSE "off"

\* line 229: with dummy_mode_lock
T229(t) ==
    /\ pc[t] = "T229"
    /\ DummyLockFree
    /\ dummy_mode_lock' = t
    /\ Goto(t, "T230r")
    /\ UNCHANGED <<dummy_mode_enabled, _prev, settings, settings_lock, store,
                   req, local, resp, counters, history>>

\* line 230, right-hand side: load dummy_mode_enabled
T230r(t) ==
    /\ pc[t] = "T230r"
    /\ local' = [local EXCEPT ![t] = [@ EXCEPT !.tmp = dummy_mode_enabled]]
    /\ Goto(t, "T230w")
    /\ UNCHANGED <<dummy_mode_enabled, _prev, settings, locks, store,
                   req, resp, counters, history>>

\* line 230, assignment: dummy_mode_enabled = not <the loaded value>
T230w(t) ==
    /\ pc[t] = "T230w"
    /\ dummy_mode_enabled' = ~local[t].tmp
    /\ toggle_flips' = toggle_flips + 1
    /\ last_toggle' = "none"
    /\ off_period' = [appends |-> 0,
                      asleep |-> local[t].tmp /\ pc[Loop] = "L161"]
    /\ Goto(t, "T231")
    /\ UNCHANGED <<_prev, settings, locks, store, req, local, resp, counters,
                   settings_hist>>

\* lines 231-232: state = dummy_mode_enabled; release; respond
T231(t) ==
    /\ pc[t] = "T231"
    /\ dummy_mode_lock' = Released(dummy_mode_lock, t)
    /\ resp' = [resp EXCEPT ![t] = [code |-> 200, dummy_mode |-> dummy_mode_enabled]]
    /\ last_toggle' = OnOff(dummy_mode_enabled)
    /\ Goto(t, "done")
    /\ UNCHANGED <<dummy_mode_enabled, _prev, settings, settings_lock, store,
                   req, local, counters, settings_hist, toggle_flips, off_period>>

(* api_dummy_status, app.py:235-239 *)

DummyStatus(t) ==
    /\ FirstFree(t)
    /\ Accept(t, "dummy-status", <<>>, NoLocal, "S237")

\* line 237: with dummy_mode_lock
S237(t) ==
    /\ pc[t] = "S237"
    /\ DummyLockFree
    /\ dummy_mode_lock' = t
    /\ Goto(t, "S238")
    /\ UNCHANGED <<dummy_mode_enabled, _prev, settings, settings_lock, store,
                   req, local, resp, counters, history>>

\* lines 238-239: state = dummy_mode_enabled; release; respond.  The
\* response also records what the last returned toggle had answered, if no
\* toggle has written the flag since.
S238(t) ==
    /\ pc[t] = "S238"
    /\ dummy_mode_lock' = Released(dummy_mode_lock, t)
    /\ resp' = [resp EXCEPT ![t] = [code |-> 200, dummy_mode |-> dummy_mode_enabled,
                                    after_toggle |-> last_toggle]]
    /\ Goto(t, "done")
    /\ UNCHANGED <<dummy_mode_enabled, _prev, settings, settings_lock, store,
                   req, local, counters, history>>

(* post_sensor_data, app.py:177-186 *)

\* Request bodies explored: readings far outside the physical ranges, as
\* numbers and as strings, and bodies with a field missing, null or not a
\* number
PostBodies ==
    { [sea_level |-> Num(300000), wind_speed |-> Num(-2000)],
      [sea_level |-> NumStr(110500), wind_speed |-> Num(40000)],
      [wind_speed |-> Num(5000)],
      [sea_level |-> Num(100000)],
      [sea_level |-> Num(100000), wind_speed |-> None],
      [sea_level |-> BadStr, wind_speed |-> Num(5000)] }

\* lines 183-184: the check that rejects a request with 400
MissingNever(sea, wind) == FALSE
Missing(sea, wind) == sea = None \/ wind = None

\* lines 180-185: parse, validate, convert; insert_record runs next unless
\* the request is rejected (400) or float() raises (500)
PostSensorData(t) ==
    /\ FirstFree(t)
    /\ \E data \in PostBodies :
          LET sea == Get(data, "sea_level")
              wind == Get(data, "wind_speed")
          IN  IF Missing(sea, wind)
              THEN Reply(t, "sensor-data", data,
                         [code |-> 400, error |-> "sea_level and wind_speed required"])
              ELSE IF ~(Converts(sea) /\ Converts(wind))
              THEN Reply(t, "sensor-data", data, [code |-> 500])
              ELSE Accept(t, "sensor-data", data,
                          [NoLocal EXCEPT !.sea = Value(sea), !.wind = Value(wind)],
                          "I128")

(* api_get_settings, app.py:348-351 *)

GetSettings(t) ==
    /\ FirstFree(t)
    /\ Accept(t, "get-settings", <<>>, NoLocal, "GS350")

SettingsLockFreeNoExclusion == TRUE
SettingsLockFree == settings_lock = NoThread

\* line 350: with settings_lock
GS350(t) ==
    /\ pc[t] = "GS350"
    /\ SettingsLockFree
    /\ settings_lock' = t
    /\ Goto(t, "GS351")
    /\ UNCHANGED <<dummy_mode_enabled, _prev, settings, dummy_mode_lock, store,
                   req, local, resp, counters, history>>

\* line 351: return jsonify(dict(settings)); release
GS351(t) ==
    /\ pc[t] = "GS351"
    /\ resp' = [resp EXCEPT ![t] = [code |-> 200, body |-> settings]]
    /\ settings_lock' = Released(settings_lock, t)
    /\ Goto(t, "done")
    /\ UNCHANGED <<dummy_mode_enabled, _prev, settings, dummy_mode_lock, store,
                   req, local, counters, history>>

(* api_update_settings, app.py:354-365 *)

\* Request bodies explored: none, one, or all of the fields; values below,
\* inside and above the ranges; a value int() raises on
SettingsBodies ==
    { <<>>,
      [data_interval |-> Num(0)],
      [chart_points |-> Num(1000)],
      [prediction_days |-> NumStr(2)],
      [data_interval |-> Num(90), chart_points |-> Num(5), prediction_days |-> Num(31)],
      [data_interval |-> Num(20), chart_points |-> BadStr] }

UpdateSettings(t) ==
    /\ FirstFree(t)
    /\ \E data \in SettingsBodies : Accept(t, "update-settings", data, NoLocal, "U358")

\* The statement that runs next: the first of lines 360, 362, 364 from
\* position i on whose key is in the body, else the return of line 365
FieldLabel(data, i) ==
    IF i <= 1 /\ "data_interval" \in DOMAIN data THEN "U360"
    ELSE IF i <= 2 /\ "chart_points" \in DOMAIN data THEN "U362"
    ELSE IF i <= 3 /\ "prediction_days" \in DOMAIN data THEN "U364"
    ELSE "U365"

\* What the update starts from: the live settings, modified in place
UpdateBaseDefaults == SettingsStart
UpdateBase == settings

\* line 358: with settings_lock; local old keeps Settings as the update found it
U358(t) ==
    /\ pc[t] = "U358"
    /\ SettingsLockFree
    /\ settings_lock' = t
    /\ settings' = UpdateBase
    /\ local' = [local EXCEPT ![t] = [@ EXCEPT !.old = settings]]
    /\ Goto(t, FieldLabel(req[t].data, 1))
    /\ UNCHANGED <<dummy_mode_enabled, _prev, dummy_mode_lock, store,
                   req, resp, counters, history>>

\* max(lo, min(hi, v)) of lines 360, 362 and 364
clamp_settingNoUpper(v, lo, hi) == Max2(lo, v)
clamp_setting(v, lo, hi) == Max2(lo, Min2(hi, v))

\* One of lines 360, 362, 364, whose key is in the body: assign the clamped
\* int(value), or leave the with block by the exception int() raises
SetField(t, label, i, key, lo, hi) ==
    /\ pc[t] = label
    /\ IF Converts(req[t].data[key])
       THEN /\ settings' = [settings EXCEPT ![key] =
                               clamp_setting(Value(req[t].data[key]), lo, hi)]
            /\ Goto(t, FieldLabel(req[t].data, i + 1))
            /\ UNCHANGED <<settings_lock, resp, settings_hist>>
       ELSE /\ settings_lock' = Released(settings_lock, t)
            /\ resp' = [resp EXCEPT ![t] = [code |-> 500]]
            /\ settings_hist' = settings_hist \cup {settings}
            /\ Goto(t, "done")
            /\ UNCHANGED settings
    /\ UNCHANGED <<dummy_mode_enabled, _prev, dummy_mode_lock, store, req, local,
                   counters, toggle_flips, last_toggle, off_period>>

\* line 360
U360(t) ==
    /\ pc[t] = "U360"
    /\ SetField(t, "U360", 1, "data_interval", INTERVAL_LO, INTERVAL_HI)

\* line 362
U362(t) ==
    /\ pc[t] = "U362"
    /\ SetField(t, "U362", 2, "chart_points", POINTS_LO, POINTS_HI)

\* line 364
U364(t) ==
    /\ pc[t] = "U364"
    /\ SetField(t, "U364", 3, "prediction_days", DAYS_LO, DAYS_HI)

\* line 365: return jsonify(dict(settings)); release
U365(t) ==
    /\ pc[t] = "U365"
    /\ resp' = [resp EXCEPT ![t] = [code |-> 200, body |-> settings]]
    /\ settings_lock' = Released(settings_lock, t)
    /\ settings_hist' = settings_hist \cup {settings}
    /\ Goto(t, "done")
    /\ UNCHANGED <<dummy_mode_enabled, _prev, settings, dummy_mode_lock, store,
                   req, local, counters, toggle_flips, last_toggle, off_period>>

(* Queries on sensor_data.  A SELECT sees the committed rows. *)

\* SELECT ... ORDER BY id DESC LIMIT n: the n last rows, newest first
RECURSIVE Descending(_, _)
Descending(rows, n) ==
    IF n <= 0 \/ rows = <<>> THEN <<>>
    ELSE <<rows[Len(rows)]>> \o Descending(SubSeq(rows, 1, Len(rows) - 1), n - 1)

\* reversed(rows)
Unreversed(rows) == rows
RECURSIVE Reversed(_)
Reversed(rows) ==
    IF rows = <<>> THEN <<>>
    ELSE <<rows[Len(rows)]>> \o Reversed(SubSeq(rows, 1, Len(rows) - 1))

RowsToDicts(rows) == [i \in 1..Len(rows) |-> row_to_dict(rows[i])]

(* api_latest, app.py:189-198 *)

Latest(t) ==
    /\ FirstFree(t)
    /\ LET rows == Descending(sensor_data, 1)
       IN  Reply(t, "latest", <<>>,
                 IF rows = <<>>
                 THEN [code |-> 200, message |-> "no data yet"]
                 ELSE [code |-> 200, body |-> row_to_dict(rows[1])])

(* api_history, app.py:201-211 *)

History(t) ==
    /\ FirstFree(t)
    /\ Accept(t, "history", <<>>, NoLocal, "H204")

\* line 204: with settings_lock
H204(t) ==
    /\ pc[t] = "H204"
    /\ SettingsLockFree
    /\ settings_lock' = t
    /\ Goto(t, "H205")
    /\ UNCHANGED <<dummy_mode_enabled, _prev, settings, dummy_mode_lock, store,
                   req, local, resp, counters, history>>

\* line 205: limit = settings["chart_points"]; release
H205(t) ==
    /\ pc[t] = "H205"
    /\ local' = [local EXCEPT ![t] = [@ EXCEPT !.limit = settings.chart_points]]
    /\ settings_lock' = Released(settings_lock, t)
    /\ Goto(t, "H207")
    /\ UNCHANGED <<dummy_mode_enabled, _prev, settings, dummy_mode_lock, store,
                   req, resp, counters, history>>

\* lines 206-211: the query, reversed to oldest first
H207(t) ==
    /\ pc[t] = "H207"
    /\ resp' = [resp EXCEPT ![t] =
                   [code |-> 200,
                    body |-> RowsToDicts(Reversed(Descending(sensor_data, local[t].limit)))]]
    /\ Goto(t, "done")
    /\ UNCHANGED <<dummy_mode_enabled, _prev, settings, locks, store,
                   req, local, counters, history>>

(* api_export_csv, app.py:246-267: the records of the CSV, ORDER BY id ASC *)

ExportCsv(t) ==
    /\ FirstFree(t)
    /\ Reply(t, "export-csv", <<>>, [code |-> 200, body |-> RowsToDicts(sensor_data)])

(* _linear_regression, app.py:274-288, in exact arithmetic: the slope is
   the fraction num / denom, the intercept (sy - slope * sx) / n *)

RECURSIVE SumTo(_, _)
SumTo(f, n) == IF n = 0 THEN 0 ELSE f[n] + SumTo(f, n - 1)

\* The sums of lines 279-283 over ys, a sequence indexed from 1 for the
\* code's indices 0..n-1
_linear_regression(ys) ==
    LET n == Len(ys)
        sx == SumTo([i \in 1..n |-> i - 1], n)
        sy == SumTo([i \in 1..n |-> ys[i]], n)
        sxx == SumTo([i \in 1..n |-> (i - 1) * (i - 1)], n)
        sxy == SumTo([i \in 1..n |-> (i - 1) * ys[i]], n)
        denom == n * sxx - sx * sx
    IN  [n |-> n, sx |-> sx, sy |-> sy, denom |-> denom,
         num |-> IF denom = 0 THEN 0 ELSE n * sxy - sx * sy]

(* api_prediction, app.py:291-341 *)

PREDICTION_WINDOW == 200
STEPS_PER_DAY == 28800

\* line 313: steps_per_day = (24 * 3600) / 3, whatever data_interval is
steps_per_dayLive == (24 * 3600) \div settings.data_interval
steps_per_day == STEPS_PER_DAY

\* line 316: now, as the number of the current UTC day; a reading of the
\* wall clock, on the day the process started or on the day after
Dates == {0, 1}

\* 15 * sin(day * 0.9) and 3 * sin(day * 1.1 + 0.5) of lines 323-324, in
\* thousandths, for day 1..30
SeaSeason ==
    <<11750, 14608, 6411, -6638, -14663, -11591, 252, 11905, 14548, 6182,
      -6863, -14714, -11430, 504, 12057, 14485, 5951, -7086, -14761, -11265,
      756, 12205, 14417, 5719, -7308, -14804, -11097, 1008, 12350, 14346>>
WindSeason ==
    <<2999, 1282, -1836, -2947, -838, 2187, 2822, 373, -2483, -2626,
      101, 2718, 2365, -573, -2884, -2044, 1030, 2978, 1672, -1462,
      -2998, -1258, 1857, 2942, 813, -2205, -2813, -347, 2498, 2613>>

\* Lines 318-327 for one metric: intercept + slope * future_idx + season,
\* rounded to 2 decimals.  With q and r the quotient and remainder of num by
\* denom, the projection is q * f + (sy * denom - num * sx + n * r * f) / (n * denom).
\* A slope of SteepSlope thousandths per step or more carries the projection
\* of any day past the far end of either range of lines 327-328, whatever
\* the other terms add: it is kept as a value of that sign and of size
\* FarAway, which the clamp then brings to the bound.
Projection(fit, day, season) ==
    LET SteepSlope == 2000
        FarAway == 1000000000
        f == fit.n + day * steps_per_day
        q == fit.num \div fit.denom
        r == fit.num % fit.denom
        d == fit.n * fit.denom
        rest == fit.sy * fit.denom - fit.num * fit.sx + fit.n * r * f
        whole == q * f + (rest \div d) + season
        x == round2(whole)
    IN  IF fit.denom = 0 THEN round2((fit.sy \div fit.n) + season)
        ELSE IF q >= SteepSlope THEN FarAway
        ELSE IF q < -SteepSlope THEN -FarAway
        ELSE IF whole % 10 = 5 /\ rest % d # 0 THEN 10 * ((whole \div 10) + 1)
        ELSE x

\* lines 327-328: max(lo, min(hi, round(x, 2)))
clamp_projectionNoLower(v, lo, hi) == Min2(hi, v)
clamp_projection(v, lo, hi) == Max2(lo, Min2(hi, v))

\* lines 317-339: the projections of day 1..days
Predictions(rows, days, now) ==
    LET sea == _linear_regression([i \in 1..Len(rows) |-> rows[i].sea_level])
        wind == _linear_regression([i \in 1..Len(rows) |-> rows[i].wind_speed])
    IN  [day \in 1..days |->
            LET pred_sea == clamp_projection(Projection(sea, day, SeaSeason[day]), SEA_LO, SEA_HI)
                pred_wind == clamp_projection(Projection(wind, day, WindSeason[day]), WIND_LO, WIND_HI)
                s == compute_status(pred_sea, pred_wind)
            IN  [day |-> day, date |-> now + day,
                 sea_level |-> pred_sea, wind_speed |-> pred_wind,
                 sea_status |-> s[1], wind_status |-> s[2], overall_status |-> s[3]]]

Prediction(t) ==
    /\ FirstFree(t)
    /\ Accept(t, "prediction", <<>>, NoLocal, "F294")

\* line 294: with settings_lock
F294(t) ==
    /\ pc[t] = "F294"
    /\ SettingsLockFree
    /\ settings_lock' = t
    /\ Goto(t, "F295")
    /\ UNCHANGED <<dummy_mode_enabled, _prev, settings, dummy_mode_lock, store,
                   req, local, resp, counters, history>>

\* line 295: the horizon of the call
ReadDaysDefault == SettingsStart.prediction_days
ReadDays == settings.prediction_days

\* line 295: days = settings["prediction_days"]; release
F295(t) ==
    /\ pc[t] = "F295"
    /\ local' = [local EXCEPT ![t] = [@ EXCEPT !.days = ReadDays]]
    /\ settings_lock' = Released(settings_lock, t)
    /\ Goto(t, "F298")
    /\ UNCHANGED <<dummy_mode_enabled, _prev, settings, dummy_mode_lock, store,
                   req, resp, counters, history>>

\* line 301: if len(rows) < 2
NotEnoughOnlyEmpty(rows) == Len(rows) < 1
NotEnough(rows) == Len(rows) < 2

\* lines 297-341: the query, the fit and the projections.  The response
\* also records what the call read: the number of rows of its window, the
\* horizon, the date, and the settings, flag and generator state beside it.
F298(t) ==
    /\ pc[t] = "F298"
    /\ \E now \in Dates :
          LET rows == Descending(sensor_data, PREDICTION_WINDOW)
              read == [rows |-> Len(rows), days |-> local[t].days, now |-> now,
                       data_interval |-> settings.data_interval,
                       chart_points |-> settings.chart_points,
                       dummy_mode |-> dummy_mode_enabled, prev |-> _prev]
          IN  resp' = [resp EXCEPT ![t] =
                          IF NotEnough(rows)
                          THEN [code |-> 200, error |-> "not enough data for prediction",
                                read |-> read]
                          ELSE [code |-> 200,
                                body |-> Predictions(Reversed(rows), local[t].days, now),
                                read |-> read]]
    /\ Goto(t, "done")
    /\ UNCHANGED <<dummy_mode_enabled, _prev, settings, locks, store,
                   req, local, counters, history>>

(* A store operation that fails.  conn.execute of line 128 raises
   sqlite3.OperationalError (the database stays locked by another process
   past the busy timeout, the disk is full, the file is gone).  Nothing in
   insert_record or in its callers catches it: in a handler Flask answers
   500; in _dummy_loop, which has no try around lines 157-158, the exception
   leaves the while loop and the thread ends. *)

I128Raises(t) ==
    /\ pc[t] = "I128"
    /\ IF t = Loop
       THEN /\ Goto(Loop, "ended")
            /\ resp' = resp
       ELSE /\ Goto(t, "done")
            /\ resp' = [resp EXCEPT ![t] = [code |-> 500]]
    /\ local' = [local EXCEPT ![t] = NoLocal]
    /\ UNCHANGED <<dummy_mode_enabled, _prev, settings, locks, store, req,
                   counters, history>>

(* Specifications *)

LoopSteps == L154 \/ L155 \/ L159 \/ L160 \/ L161
GenSteps == \E t \in Threads : G90(t) \/ G91(t) \/ G93(t) \/ G94(t)
InsertSteps == \E t \in Threads : I128(t) \/ I132(t)
ToggleSteps == \E t \in Handlers : T229(t) \/ T230r(t) \/ T230w(t) \/ T231(t)
StatusSteps == \E t \in Handlers : S237(t) \/ S238(t)
GetSteps == \E t \in Handlers : GS350(t) \/ GS351(t)
UpdateSteps == \E t \in Handlers : U358(t) \/ U360(t) \/ U362(t) \/ U364(t) \/ U365(t)
HistorySteps == \E t \in Handlers : H204(t) \/ H205(t) \/ H207(t)
PredictionSteps == \E t \in Handlers : F294(t) \/ F295(t) \/ F298(t)

\* The whole program
Next ==
    \/ LoopSteps \/ GenSteps \/ InsertSteps \/ ToggleSteps \/ StatusSteps
    \/ GetSteps \/ UpdateSteps \/ HistorySteps \/ PredictionSteps
    \/ \E t \in Handlers :
          \/ PostSensorData(t) \/ Latest(t) \/ History(t) \/ GenerateDummy(t)
          \/ ToggleDummy(t) \/ DummyStatus(t) \/ ExportCsv(t) \/ Prediction(t)
          \/ GetSettings(t) \/ UpdateSettings(t)

Spec == Init /\ [][Next]_vars

\* The generator: the loop and /api/generate-dummy
NextGen ==
    \/ LoopSteps \/ GenSteps \/ InsertSteps
    \/ \E t \in Handlers : GenerateDummy(t)

SpecGen == InitWith(GenTasks) /\ [][NextGen]_vars

\* The loop and the dummy-mode flag, beside external ingest
NextLoop ==
    \/ LoopSteps \/ GenSteps \/ InsertSteps \/ ToggleSteps \/ StatusSteps
    \/ \E t \in Handlers : ToggleDummy(t) \/ DummyStatus(t) \/ PostSensorData(t)

SpecLoop == InitWith(LoopTasks) /\ [][NextLoop]_vars

\* The settings store: its readers and writers, the loop among them
NextSettings ==
    \/ LoopSteps \/ GenSteps \/ InsertSteps \/ GetSteps \/ UpdateSteps
    \/ \E t \in Handlers : GetSettings(t) \/ UpdateSettings(t)

SpecSettings == InitWith(SettingsTasks) /\ [][NextSettings]_vars

(* Tables the process may find at start: rows of earlier runs, written by
   insert_record for external POSTs (stored as given, line 185) *)

StoredRow(i, sea_level, wind_speed) ==
    [id |-> i, sea_level |-> sea_level, wind_speed |-> wind_speed,
     by |-> <<"earlier", i>>]

Stored(pairs) == [i \in 1..Len(pairs) |-> StoredRow(i, pairs[i][1], pairs[i][2])]

\* More rows than the least chart_points, at and beside every threshold of
\* compute_status and in every combination of the two statuses
LongTable ==
    Stored(<< <<50000, 1000>>, <<119990, 9990>>, <<120000, 10000>>,
              <<180000, 18000>>, <<180010, 18010>>, <<100000, 12000>>,
              <<100000, 20000>>, <<150000, 5000>>, <<150000, 25000>>,
              <<200000, 5000>>, <<200000, 15000>>, <<300000, -2000>> >>)

QueryTables == { <<>>, LongTable }

(* The queries: latest, history and export, beside external ingest and
   updates of chart_points *)

QueryTasks == 2

InitQuery == \E rows \in QueryTables : InitStore(QueryTasks, rows)

NextQuery ==
    \/ InsertSteps \/ HistorySteps \/ UpdateSteps
    \/ \E t \in Handlers :
          \/ PostSensorData(t) \/ Latest(t) \/ History(t) \/ ExportCsv(t)
          \/ UpdateSettings(t)

SpecQuery == InitQuery /\ [][NextQuery]_vars

(* The forecast, beside external ingest and settings updates *)

\* Windows too short for a fit, the two rows (100, 5), (110, 6), a slow
\* rise that stays inside the ranges, a level table, a fall, and rows far
\* outside the physical ranges
SlowRise == Stored(<< <<100000, 5000>>, <<100001, 5000>> >>)
ForecastTables ==
    { <<>>,
      Stored(<< <<100000, 5000>> >>),
      Stored(<< <<100000, 5000>>, <<110000, 6000>> >>),
      SlowRise,
      Stored(<< <<130000, 10000>>, <<130000, 10000>>, <<130000, 10000>> >>),
      Stored(<< <<200000, 20000>>, <<150000, 12000>>, <<90000, 3000>> >>),
      Stored(<< <<-400000, 90000>>, <<700000, -30000>> >>) }

ForecastTasks == 2

InitForecast == \E rows \in ForecastTables : InitStore(ForecastTasks, rows)

NextForecast ==
    \/ PredictionSteps \/ UpdateSteps \/ InsertSteps
    \/ \E t \in Handlers :
          Prediction(t) \/ UpdateSettings(t) \/ PostSensorData(t)

SpecForecast == InitForecast /\ [][NextForecast]_vars

(* Repeated forecasts, beside everything a forecast does not read: the
   other settings, the dummy-mode flag and the generator state *)

DeterminismTasks == 3

InitDeterminism == InitStore(DeterminismTasks, SlowRise) /\ _prev = PrevStart

NextDeterminism ==
    \/ PredictionSteps \/ UpdateSteps \/ InsertSteps \/ GenSteps \/ ToggleSteps
    \/ \E t \in Handlers :
          \/ Prediction(t) \/ UpdateSettings(t) \/ GenerateDummy(t)
          \/ ToggleDummy(t)

SpecDeterminism == InitDeterminism /\ [][NextDeterminism]_vars

(* The loop and external ingest over a store whose INSERT may fail *)

FaultTasks == 3

NextFault ==
    \/ LoopSteps \/ GenSteps \/ InsertSteps
    \/ \E t \in Threads : I128Raises(t)
    \/ \E t \in Handlers : PostSensorData(t)

SpecFault == InitWith(FaultTasks) /\ [][NextFault]_vars

(* The users of the two locks named by the deadlock claim: the loop, the
   toggle and status handlers, the settings handlers and the history query
   (the forecast takes settings_lock as the history query does), under fair
   scheduling: a thread that can take its next step does take it *)

LockTasks == 2

LoopStep ==
    \/ LoopSteps
    \/ \E t \in {Loop} : G90(t) \/ G91(t) \/ G93(t) \/ G94(t) \/ I128(t) \/ I132(t)
HandlerStep(t) ==
    \/ T229(t) \/ T230r(t) \/ T230w(t) \/ T231(t) \/ S237(t) \/ S238(t)
    \/ GS350(t) \/ GS351(t)
    \/ U358(t) \/ U360(t) \/ U362(t) \/ U364(t) \/ U365(t)
    \/ H204(t) \/ H205(t) \/ H207(t)

InitLocks == InitWith(LockTasks) /\ _prev = PrevStart

NextLocks ==
    \/ LoopSteps \/ GenSteps \/ InsertSteps \/ ToggleSteps \/ StatusSteps
    \/ GetSteps \/ UpdateSteps \/ HistorySteps
    \/ \E t \in Handlers :
          \/ ToggleDummy(t) \/ DummyStatus(t) \/ GetSettings(t)
          \/ UpdateSettings(t) \/ History(t)

SpecLocks ==
    /\ InitLocks
    /\ [][NextLocks]_vars
    /\ WF_vars(LoopStep)
    /\ \A t \in Handlers : WF_vars(HandlerStep(t))

(* Claims *)

\* C1: generation is atomic with respect to _prev: the calls of
\* generate_sensor_values take effect in a serial order, so each write of a
\* new sea_level is within 8, and of a new wind_speed within 3, of the value
\* the call before it left in _prev.
GenerationAtomic ==
    [][\A t \in Threads :
          /\ (pc[t] = "G93" /\ pc'[t] = "G94")
                => Abs(_prev'.sea_level - _prev.sea_level) <= DELTA_SEA
          /\ (pc[t] = "G94" /\ pc'[t] = "I128")
                => Abs(_prev'.wind_speed - _prev.wind_speed) <= DELTA_WIND]_vars

\* C2: every value the generator computes, holds in _prev or returns, and
\* every row appended by the loop or by /api/generate-dummy, has sea_level in
\* [50, 250] and wind_speed in [1, 25].
SeaInRange(v) == SEA_LO <= v /\ v <= SEA_HI
WindInRange(v) == WIND_LO <= v /\ v <= WIND_HI
Generated(kind) == kind \in {"loop", "generate-dummy"}
GeneratedInRange ==
    /\ SeaInRange(_prev.sea_level) /\ WindInRange(_prev.wind_speed)
    /\ \A t \in Threads :
          /\ pc[t] \in {"G91", "G93", "G94"} => SeaInRange(local[t].new_sea)
          /\ pc[t] \in {"G93", "G94"} => WindInRange(local[t].new_wind)
          /\ (pc[t] \in {"I128", "I132"} /\ Generated(Origin(t)[1]))
                => SeaInRange(local[t].vals.sea_level) /\ WindInRange(local[t].vals.wind_speed)
    /\ \A t \in Handlers :
          (pc[t] = "done" /\ req[t].kind = "generate-dummy")
             => SeaInRange(resp[t].sea_level) /\ WindInRange(resp[t].wind_speed)
    /\ \A i \in 1..Len(sensor_data) :
          Generated(sensor_data[i].by[1])
             => SeaInRange(sensor_data[i].sea_level) /\ WindInRange(sensor_data[i].wind_speed)

\* C2, witness: a row whose sea_level the generator clamped at the upper
\* end, next to one written after it
ClampedRowStored ==
    /\ Len(sensor_data) = 2
    /\ sensor_data[1].sea_level = SEA_HI
    /\ _prev.sea_level < SEA_HI

\* C3: the response of GET /api/settings is Settings as it stood before or
\* after whole updates, never a mix of fields an update had and had not
\* written yet.
SettingsSnapshot ==
    \A t \in Handlers :
       (pc[t] = "done" /\ req[t].kind = "get-settings")
          => resp[t].body \in settings_hist

\* C3, witness: a get has answered with updated settings while the next
\* update is inside its critical section
GetBesideUpdate ==
    \E t, u \in Handlers :
       /\ pc[t] = "done" /\ req[t].kind = "get-settings"
       /\ resp[t].body # SettingsStart
       /\ pc[u] \in {"U362", "U364", "U365"}

\* C4: the three settings stay in [1,60], [10,500] and [1,30], and an
\* update stores each number it is given as the nearest value of the range.
Nearest(v, lo, hi) == IF v < lo THEN lo ELSE IF v > hi THEN hi ELSE v
RangeOf(key) ==
    IF key = "data_interval" THEN <<INTERVAL_LO, INTERVAL_HI>>
    ELSE IF key = "chart_points" THEN <<POINTS_LO, POINTS_HI>>
    ELSE <<DAYS_LO, DAYS_HI>>
SettingsKeys == {"data_interval", "chart_points", "prediction_days"}
SettingsInRange ==
    /\ \A key \in SettingsKeys :
          RangeOf(key)[1] <= settings[key] /\ settings[key] <= RangeOf(key)[2]
    /\ \A t \in Handlers :
          (pc[t] = "done" /\ req[t].kind = "update-settings" /\ resp[t].code = 200)
             => \A key \in DOMAIN req[t].data :
                   resp[t].body[key] =
                      Nearest(Value(req[t].data[key]), RangeOf(key)[1], RangeOf(key)[2])

\* C4, witness: data_interval 0 was stored as 1 and chart_points 1000 as 500
ClampedSettingsStored ==
    /\ settings.data_interval = INTERVAL_LO
    /\ settings.chart_points = POINTS_HI
    /\ \E t \in Handlers :
          /\ pc[t] = "done" /\ req[t].kind = "update-settings"
          /\ req[t].data = [chart_points |-> Num(1000)]

\* C5: an update changes only the fields its body holds, and answers with
\* the whole resulting Settings; with an empty body it answers with the
\* current Settings and changes nothing.
UpdateOf(t) == req[t].kind = "update-settings" /\ pc[t] \in {"U360", "U362", "U364", "U365"}
UpdateFrame ==
    /\ [](\A t \in Handlers :
            (pc[t] = "done" /\ req[t].kind = "update-settings" /\ resp[t].code = 200)
               => /\ DOMAIN resp[t].body = SettingsKeys
                  /\ \A key \in SettingsKeys \ DOMAIN req[t].data :
                        resp[t].body[key] = local[t].old[key]
                  /\ req[t].data = <<>> => resp[t].body = local[t].old)
    /\ [][\A t \in Handlers :
            /\ (UpdateOf(t) /\ pc'[t] # pc[t])
                  => \A key \in SettingsKeys \ DOMAIN req[t].data :
                        settings'[key] = settings[key]
            /\ (pc[t] = "U365" /\ pc'[t] = "done")
                  => resp'[t].body = settings /\ settings' = settings]_vars

\* C5, witness: an update of chart_points alone has answered, and
\* data_interval is what an earlier update made it
AbsentFieldKept ==
    \E t \in Handlers :
       /\ pc[t] = "done" /\ req[t].kind = "update-settings" /\ resp[t].code = 200
       /\ req[t].data = [chart_points |-> Num(1000)]
       /\ resp[t].body.data_interval = INTERVAL_LO
       /\ resp[t].body.chart_points = POINTS_HI

\* C6: an iteration of the loop that reads the flag as enabled appends
\* exactly one row, the pair it generated in that iteration; one that reads
\* it as disabled appends none and does not call the generator.
RowsBy(origin) == {i \in 1..Len(sensor_data) : sensor_data[i].by = origin}
LoopPastBranch == pc[Loop] \in {"L159", "L160", "L161", "L154"}
IterationAppends ==
    /\ \A i \in 1..iter : Cardinality(RowsBy(<<"loop", i>>)) <= 1
    /\ (iter >= 1 /\ ~LoopPastBranch) => RowsBy(<<"loop", iter>>) = {}
    /\ (iter >= 1 /\ LoopPastBranch) =>
          IF local[Loop].enabled
          THEN /\ local[Loop].gens = 1
               /\ \E i \in 1..Len(sensor_data) :
                     /\ RowsBy(<<"loop", iter>>) = {i}
                     /\ sensor_data[i].sea_level = local[Loop].vals.sea_level
                     /\ sensor_data[i].wind_speed = local[Loop].vals.wind_speed
          ELSE /\ local[Loop].gens = 0
               /\ RowsBy(<<"loop", iter>>) = {}

\* C6, witness: a first iteration that read enabled and appended its row,
\* then a second that read disabled and sleeps with nothing appended
EnabledThenDisabledIteration ==
    /\ iter = 2 /\ pc[Loop] = "L161" /\ ~local[Loop].enabled
    /\ Cardinality(RowsBy(<<"loop", 1>>)) = 1
    /\ RowsBy(<<"loop", 2>>) = {}

\* C7: a toggle does not interrupt the sleep of the loop; once the flag is
\* disabled and stays so, the loop appends at most the one row of the
\* iteration that had read it as enabled, and none if it was disabled while
\* the loop slept.
DisableAtBoundary ==
    /\ [](off_period.appends <= 1 /\ (off_period.asleep => off_period.appends = 0))
    /\ [][(pc[Loop] = "L161" /\ dummy_mode_enabled' # dummy_mode_enabled)
             => pc'[Loop] = "L161"]_vars

\* C7, witness: the flag was disabled while the loop slept after an
\* appending iteration, and the loop has since run a whole iteration
DisabledWhileAsleep ==
    /\ off_period.asleep /\ ~dummy_mode_enabled
    /\ iter = 2 /\ pc[Loop] = "L161"
    /\ Len(sensor_data) = 1

\* C8: the store is an append-only log: ids increase strictly in insertion
\* order, every commit adds exactly the row of the task that commits, after
\* the rows already there, every request that has inserted finds its one row
\* in the store, and no other step changes the store.
IdsIncrease ==
    \A i \in 1..Len(sensor_data), j \in 1..Len(sensor_data) :
       i < j => sensor_data[i].id < sensor_data[j].id
InsertedOnce ==
    \A t \in Handlers :
       (pc[t] = "done" /\ resp[t].code \in {200, 201}
          /\ req[t].kind \in {"sensor-data", "generate-dummy"})
          => Cardinality(RowsBy(<<req[t].kind, req[t].no>>)) = 1
CommitBy(t) ==
    /\ pc[t] = "I132" /\ pc'[t] # "I132"
    /\ Len(sensor_data') = Len(sensor_data) + 1
    /\ SubSeq(sensor_data', 1, Len(sensor_data)) = sensor_data
    /\ sensor_data'[Len(sensor_data')].by = Origin(t)
    /\ sensor_data'[Len(sensor_data')].sea_level = local[t].sea
    /\ sensor_data'[Len(sensor_data')].wind_speed = local[t].wind
StoreAppendOnly ==
    /\ [](IdsIncrease /\ InsertedOnce)
    /\ [][(\A t \in Threads : (pc[t] = "I132" /\ pc'[t] # "I132") => CommitBy(t))
          /\ (sensor_data' # sensor_data => \E t \in Threads : CommitBy(t))]_vars

\* C8, witness: two rows in the store, the first of an external POST and
\* the second of the loop, with ids 1 and 2
TwoWritersStored ==
    /\ Len(sensor_data) = 2
    /\ sensor_data[1].by[1] = "sensor-data"
    /\ sensor_data[2].by[1] = "loop"
    /\ sensor_data[1].id = 1 /\ sensor_data[2].id = 2

\* C9: the flag is its initial value after an even number of toggles and
\* the negation after an odd number; a toggle answers with the value it
\* wrote; a status read that follows a returned toggle, with no toggle
\* writing in between, answers with that toggle's result.
ToggleAtomic ==
    /\ dummy_mode_enabled = (toggle_flips % 2 = 0)
    /\ \A t \in Handlers :
          /\ (pc[t] = "done" /\ req[t].kind = "toggle-dummy")
                => resp[t].dummy_mode = ~local[t].tmp
          /\ (pc[t] = "done" /\ req[t].kind = "dummy-status"
                /\ resp[t].after_toggle # "none")
                => OnOff(resp[t].dummy_mode) = resp[t].after_toggle

\* C9, witness: two toggles have brought the flag back to enabled and a
\* status read after them has answered
ToggledTwiceThenRead ==
    /\ toggle_flips = 2 /\ dummy_mode_enabled
    /\ \E t \in Handlers :
          /\ pc[t] = "done" /\ req[t].kind = "dummy-status"
          /\ resp[t].after_toggle = "on"

\* C10 as claimed: a POST that lacks a field is rejected and leaves the
\* store as it was; a POST that holds both fields appends exactly one row
\* with the given values.
PostOf(t) == pc[t] = "done" /\ req[t].kind = "sensor-data"
PostRows(t) == RowsBy(<<"sensor-data", req[t].no>>)
HoldsBoth(data) == {"sea_level", "wind_speed"} \subseteq DOMAIN data
PostAppendsIfPresent ==
    \A t \in Handlers :
       PostOf(t) =>
          IF HoldsBoth(req[t].data)
          THEN resp[t].code = 201 /\ Cardinality(PostRows(t)) = 1
          ELSE resp[t].code = 400 /\ PostRows(t) = {}

\* C10: a POST that lacks a field, or holds null for it, is rejected with
\* 400, and one that holds a value that is no number fails with 500; both
\* leave the store as it was.  A POST whose two fields are numbers, or
\* strings that spell numbers, appends exactly one row with these values,
\* unclamped, whatever the flag and data_interval are.
PostAppendsIfNumeric ==
    \A t \in Handlers :
       PostOf(t) =>
          LET sea == Get(req[t].data, "sea_level")
              wind == Get(req[t].data, "wind_speed")
          IN  IF sea.kind = "null" \/ wind.kind = "null"
              THEN resp[t].code = 400 /\ PostRows(t) = {}
              ELSE IF sea.kind = "badstr" \/ wind.kind = "badstr"
              THEN resp[t].code = 500 /\ PostRows(t) = {}
              ELSE /\ resp[t].code = 201
                   /\ \E i \in 1..Len(sensor_data) :
                         /\ PostRows(t) = {i}
                         /\ sensor_data[i].sea_level = sea.v
                         /\ sensor_data[i].wind_speed = wind.v

\* C10, witness: with the flag disabled and data_interval changed, a POST
\* has stored a sea_level above the physical range as it was given
UnclampedPostStored ==
    \E t \in Handlers :
       /\ PostOf(t) /\ resp[t].code = 201
       /\ \E i \in PostRows(t) : sensor_data[i].sea_level > SEA_HI
       /\ ~dummy_mode_enabled \/ settings.data_interval # SettingsStart.data_interval

\* C18: an update that fails on a malformed value changes no field of
\* Settings: when it leaves by the exception of int(), Settings is what the
\* update found when it took the lock.
UpdateRaises(t) ==
    /\ pc[t] \in {"U360", "U362", "U364"}
    /\ pc'[t] = "done"
    /\ resp'[t].code = 500
UpdateAllOrNothing ==
    [][\A t \in Handlers : UpdateRaises(t) => settings' = local[t].old]_vars

\* C15: every classified record carries, for each metric, the status of its
\* thresholds: sea_level below 120 Normal, from 120 to 180 Warning, above
\* 180 Danger; wind_speed below 10 Normal, from 10 to 18 Warning, above 18
\* Danger; the same values always get the same statuses.
Level(v, warning, danger) ==
    IF v < warning THEN "Normal" ELSE IF v <= danger THEN "Warning" ELSE "Danger"
\* The classified records of the response of handler t
Classified(t) ==
    IF pc[t] # "done" \/ "body" \notin DOMAIN resp[t] THEN {}
    ELSE IF req[t].kind = "latest" THEN {resp[t].body}
    ELSE IF req[t].kind \in {"history", "export-csv"}
    THEN {resp[t].body[i] : i \in 1..Len(resp[t].body)}
    ELSE {}
AllClassified == UNION {Classified(t) : t \in Handlers}
ClassifiedByThresholds ==
    /\ \A d \in AllClassified :
          /\ d.sea_status = Level(d.sea_level, 120000, 180000)
          /\ d.wind_status = Level(d.wind_speed, 10000, 18000)
    /\ \A d, e \in AllClassified :
          (d.sea_level = e.sea_level /\ d.wind_speed = e.wind_speed)
             => /\ d.sea_status = e.sea_status
                /\ d.wind_status = e.wind_status
                /\ d.overall_status = e.overall_status

\* C15, witness: a response that classifies the four boundary values, all
\* as Warning, beside values just below and just above them
BoundariesClassified ==
    \E d, e, below, above \in AllClassified :
       /\ d.sea_level = 120000 /\ d.wind_speed = 10000
       /\ e.sea_level = 180000 /\ e.wind_speed = 18000
       /\ {d.sea_status, d.wind_status, e.sea_status, e.wind_status} = {"Warning"}
       /\ below.sea_level = 119990 /\ below.sea_status = "Normal"
       /\ above.wind_speed = 18010 /\ above.wind_status = "Danger"

\* C16: overall_status is the more severe of sea_status and wind_status
\* under Normal < Warning < Danger: never less severe than either, always
\* one of the two, and their shared level when they are equal.
Severity(s) == IF s = "Normal" THEN 0 ELSE IF s = "Warning" THEN 1 ELSE 2
OverallIsMostSevere ==
    \A d \in AllClassified :
       /\ d.overall_status \in {d.sea_status, d.wind_status}
       /\ Severity(d.overall_status) >= Severity(d.sea_status)
       /\ Severity(d.overall_status) >= Severity(d.wind_status)
       /\ d.sea_status = d.wind_status => d.overall_status = d.sea_status

\* C16, witness: one response with all nine pairs of statuses, wind the
\* more severe in some and sea in others
AllPairsClassified ==
    \E t \in Handlers :
       /\ {<<d.sea_status, d.wind_status>> : d \in Classified(t)}
             = {"Normal", "Warning", "Danger"} \X {"Normal", "Warning", "Danger"}
       /\ \E d \in Classified(t) : Severity(d.wind_status) > Severity(d.sea_status)

\* C17: a history query reads chart_points when it starts and returns the
\* min(chart_points, stored count) most recently appended rows, oldest
\* first by ascending id; from an empty store it returns the empty sequence.
HistoryReturns(t) == pc[t] = "H207" /\ pc'[t] = "done"
HistoryWindow ==
    [][\A t \in Handlers :
          /\ (pc[t] = "H205" /\ pc'[t] = "H207")
                => local'[t].limit = settings.chart_points
          /\ HistoryReturns(t) =>
                LET n == Len(sensor_data)
                    k == IF local[t].limit < n THEN local[t].limit ELSE n
                    body == resp'[t].body
                IN  /\ Len(body) = k
                    /\ \A i \in 1..k :
                          /\ body[i].id = sensor_data[n - k + i].id
                          /\ body[i].sea_level = sensor_data[n - k + i].sea_level
                          /\ body[i].wind_speed = sensor_data[n - k + i].wind_speed
                    /\ \A i \in 1..(k - 1) : body[i].id < body[i + 1].id]_vars

\* C17, witness: chart_points was lowered to 10 and a history query over a
\* table of 12 rows has returned rows 3 to 12
LastTenReturned ==
    \E t \in Handlers :
       /\ pc[t] = "done" /\ req[t].kind = "history"
       /\ Len(sensor_data) = 12
       /\ Len(resp[t].body) = 10
       /\ resp[t].body[1].id = 3 /\ resp[t].body[10].id = 12

\* C11: a forecast answers 'not enough data for prediction', with no
\* projections, exactly when its query finds fewer than 2 rows.
ForecastReturns(t) == pc[t] = "F298" /\ pc'[t] = "done"
InsufficientData(response) ==
    /\ "error" \in DOMAIN response
    /\ response.error = "not enough data for prediction"
    /\ "body" \notin DOMAIN response
InsufficientBelowTwo ==
    [][\A t \in Handlers :
          ForecastReturns(t) =>
             /\ Len(sensor_data) < 2 => InsufficientData(resp'[t])
             /\ Len(sensor_data) >= 2 =>
                   "error" \notin DOMAIN resp'[t] /\ "body" \in DOMAIN resp'[t]]_vars

\* C11, witness: a forecast over exactly one row has answered with the
\* signal, before a second row was stored
OneRowInsufficient ==
    \E t \in Handlers :
       /\ pc[t] = "done" /\ req[t].kind = "prediction"
       /\ resp[t].read.rows = 1 /\ InsufficientData(resp[t])
       /\ Len(sensor_data) = 2

\* C12: a forecast over 2 rows or more returns as many projections as
\* prediction_days was when the call read it, and their day fields are
\* 1, 2, ..., prediction_days in this order.
HorizonProjected ==
    [][\A t \in Handlers :
          /\ (pc[t] = "F295" /\ pc'[t] = "F298")
                => local'[t].days = settings.prediction_days
          /\ (ForecastReturns(t) /\ Len(sensor_data) >= 2) =>
                /\ DOMAIN resp'[t].body = 1..local[t].days
                /\ \A d \in 1..local[t].days : resp'[t].body[d].day = d]_vars

\* C12, witness: a forecast has returned the 7 projections of the horizon
\* it read, while prediction_days has since become 30
HorizonReadAtStart ==
    \E t \in Handlers :
       /\ pc[t] = "done" /\ req[t].kind = "prediction"
       /\ "body" \in DOMAIN resp[t]
       /\ Len(resp[t].body) = 7 /\ resp[t].body[7].day = 7
       /\ settings.prediction_days = 30

\* C13: every projection a forecast returns has sea_level in [50, 250] and
\* wind_speed in [1, 25], whatever the rows of its window are, and carries
\* the statuses of these clamped values.
Projections(t) ==
    IF pc[t] = "done" /\ req[t].kind = "prediction" /\ "body" \in DOMAIN resp[t]
    THEN {resp[t].body[d] : d \in DOMAIN resp[t].body}
    ELSE {}
ProjectionsInRange ==
    \A t \in Handlers : \A p \in Projections(t) :
       /\ 50000 <= p.sea_level /\ p.sea_level <= 250000
       /\ 1000 <= p.wind_speed /\ p.wind_speed <= 25000
       /\ p.sea_status = Level(p.sea_level, 120000, 180000)
       /\ p.wind_status = Level(p.wind_speed, 10000, 18000)
       /\ Severity(p.overall_status)
             = Max2(Severity(p.sea_status), Severity(p.wind_status))

\* C13, witness: over the rows (100, 5), (110, 6) the projection of day 1
\* is sea_level 250 with sea status Danger
SteepRiseClamped ==
    \E t \in Handlers :
       /\ sensor_data = Stored(<< <<100000, 5000>>, <<110000, 6000>> >>)
       /\ \E p \in Projections(t) :
             p.day = 1 /\ p.sea_level = 250000 /\ p.sea_status = "Danger"

\* C14 as claimed: two forecasts over the same window return the same
\* output.
Forecasts == {t \in Handlers : pc[t] = "done" /\ req[t].kind = "prediction"
                                  /\ "body" \in DOMAIN resp[t]}
SameWindowSameOutput ==
    \A t, u \in Forecasts :
       resp[t].read.rows = resp[u].read.rows => resp[t].body = resp[u].body

\* C14: two forecasts over the same window that read the same
\* prediction_days and run on the same date return the same output,
\* whatever data_interval, chart_points, the dummy-mode flag and the
\* generator state are at each of them.
SameInputsSameOutput ==
    \A t, u \in Forecasts :
       (/\ resp[t].read.rows = resp[u].read.rows
        /\ resp[t].read.days = resp[u].read.days
        /\ resp[t].read.now = resp[u].read.now)
          => resp[t].body = resp[u].body

\* C14, witness: two forecasts over the same window with the same horizon
\* and date, one at data_interval 3 and one after an update of
\* data_interval, and projections strictly inside the ranges
IntervalChangedBetween ==
    /\ Forecasts = Handlers
    /\ resp["h1"].read.rows = resp["h2"].read.rows
    /\ resp["h1"].read.days = resp["h2"].read.days
    /\ resp["h1"].read.now = resp["h2"].read.now
    /\ resp["h1"].read.data_interval # resp["h2"].read.data_interval
    /\ resp["h1"].body[1].sea_level = 140550

\* C19: the loop never ends while the process runs: after an iteration
\* whose append fails it still goes on to read data_interval, sleep and
\* start the next iteration.
LoopNeverEnds == pc[Loop] # "ended"

\* C20: no thread holds both locks, a thread holds a lock only between the
\* first and the last statement of a with block (never asleep, never in a
\* store call, never after its request has ended), and a thread that waits
\* for a lock gets it.
InDummyBlock == {"L155", "T230r", "T230w", "T231", "S238"}
InSettingsBlock == {"L160", "GS351", "U360", "U362", "U364", "U365", "H205", "F295"}
AtDummyLock == {"L154", "T229", "S237"}
AtSettingsLock == {"L159", "GS350", "U358", "H204", "F294"}
LocksHeldInBlocks ==
    /\ \A t \in Threads : ~(dummy_mode_lock = t /\ settings_lock = t)
    /\ dummy_mode_lock # NoThread => pc[dummy_mode_lock] \in InDummyBlock
    /\ settings_lock # NoThread => pc[settings_lock] \in InSettingsBlock
    /\ \A t \in Threads :
          /\ pc[t] \in InDummyBlock => dummy_mode_lock = t
          /\ pc[t] \in InSettingsBlock => settings_lock = t
Waits(t) ==
    /\ pc[t] \in AtDummyLock \cup AtSettingsLock
    /\ t = Loop /\ pc[t] = "L154" => iter + nreq < budget
NoDeadlock ==
    /\ []LocksHeldInBlocks
    /\ \A t \in Threads : Waits(t) ~> ~Waits(t)

\* C20, witness: a handler waits for settings_lock while another is inside
\* an update that then leaves its with block by an exception
WaitsBesideUpdate ==
    /\ settings_lock = "h1" /\ pc["h1"] = "U362"
    /\ req["h1"].data.chart_points = BadStr
    /\ pc["h2"] \in AtSettingsLock

====
